---- MODULE Spec2Model ----
(***************************************************************************)
(* A model of the LSP client of src/src/index.ts: register(), the          *)
(* per-root / multi-root connection manager, capability registration and   *)
(* document selector scoping.                                              *)
(*                                                                         *)
(* JavaScript strings are modelled as sequences of tokens, so that         *)
(* concatenation (\o), startsWith (IsPrefix) and URL resolution are        *)
(* computed and not assumed.  JSON values are modelled as sets of          *)
(* <<key path, string>> pairs (a string itself is the pair with the empty  *)
(* key path).  null / undefined is the empty set Null, a present value x   *)
(* is Some(x).                                                             *)
(***************************************************************************)
EXTENDS Integers, Sequences, FiniteSets, TLC

VARIABLES
    supportsWorkspaceFolders, \* ConnectionOptions.supportsWorkspaceFolders
    uriConfig,                \* which clientToServerURI / serverToClientURI pair is configured
    serverCapabilities,       \* capabilities the server answers initialize with
    roots,                    \* sourcegraph.workspace.roots
    registerPc,               \* position of the register() call
    rootsBefore,              \* the value pairwise() holds as "before"
    forwarding,               \* the root-change subscription is live
    unsubscribed,             \* the outer `subscriptions` of register() is closed
    sessions,                 \* every connection connect() created, in creation order
    connectionsByRootUri,     \* Map<string, Promise<MessageConnection>> of single-root mode
    providers,                \* every provider handle registered with the host
    registrationSubscriptions,\* Map<string, Unsubscribable>
    uuidCounter,              \* number of uuid.v1() values drawn
    calls,                    \* withConnection invocations
    hoverCalls,               \* provideHover invocations
    rootChanges,              \* number of root-change events fired by the host
    registrationRequests,     \* number of client/registerCapability requests received
    scopePc, scopeSelector, scopeRoot, scopeResult, \* one application of scopeDocumentSelectorToRoot
    staticPc, staticCapabilities, staticDrawn, staticResult, \* one application of
                                                            \* staticRegistrationsFromCapabilities
    installPc, installRegistrations, installRoot, installResult, \* one application of
                                                                 \* registerCapabilities
    activeWindow,             \* sourcegraph.app.activeWindow exists and has showProgress
    progressReporters,        \* Map<string, Promise<ProgressReporter>> of one connection
    reporters,                \* every showProgress() call of that connection, in call order
    progressClosed,           \* the teardown of that connection's subscriptions has run
    progressLog,              \* the window/progress notifications it received, in order
    visibleViewComponents,    \* the documents of the visible view components of the host
    diagnosticsByUri,         \* per connection: Map<string, Diagnostic[]>
    decorations,              \* per connection (decoration type) and view component
    diagnosticsClosed,        \* the connections whose teardown has run
    diagnosticsEvents         \* the diagnostics notifications and document-open events so far

managerVars == <<supportsWorkspaceFolders, uriConfig, serverCapabilities, roots, registerPc,
                 rootsBefore, forwarding, unsubscribed, sessions, connectionsByRootUri,
                 providers, registrationSubscriptions, uuidCounter, calls,
                 hoverCalls, rootChanges, registrationRequests>>
scopeVars == <<scopePc, scopeSelector, scopeRoot, scopeResult>>
staticVars == <<staticPc, staticCapabilities, staticDrawn, staticResult>>
installVars == <<installPc, installRegistrations, installRoot, installResult>>
progressVars == <<activeWindow, progressReporters, reporters, progressClosed, progressLog>>
diagnosticsVars == <<visibleViewComponents, diagnosticsByUri, decorations, diagnosticsClosed,
                     diagnosticsEvents>>
vars == <<managerVars, scopeVars, staticVars, installVars, progressVars, diagnosticsVars>>

(***************************************************************************)
(* Bounds                                                                  *)
(***************************************************************************)
MaxRootChanges == 2
MaxSessions == 2
MaxCalls == 1
MaxHoverCalls == 1
MaxRegistrationRequests == 1
MaxSelectorLen == 2
MaxOps == 2
MaxDrawn == 2
MaxRegistrations == 3

(***************************************************************************)
(* Option values, sequences                                                *)
(***************************************************************************)
Null == {}
Some(x) == {x}
The(o) == CHOOSE x \in o : TRUE

IsPrefix(p, s) == Len(p) <= Len(s) /\ SubSeq(s, 1, Len(p)) = p
Front(s) == SubSeq(s, 1, Len(s) - 1)
Last(s) == s[Len(s)]
Range(s) == {s[i] : i \in 1..Len(s)}
RECURSIVE SeqFilter(_, _)
\* the elements of s that are in keep, in the order of s
SeqFilter(s, keep) ==
    IF s = <<>> THEN <<>>
    ELSE IF Head(s) \in keep THEN <<Head(s)>> \o SeqFilter(Tail(s), keep)
    ELSE SeqFilter(Tail(s), keep)

(***************************************************************************)
(* URIs                                                                    *)
(***************************************************************************)
Schemes == {"git:", "file:"}
DirTokens == {"//repo1/", "//repo2/"}
Repo1 == <<"git:", "//repo1/">>
Repo2 == <<"git:", "//repo2/">>
RootUris == {Repo1, Repo2}
Doc1 == <<"git:", "//repo1/", "foo.ts">>
Doc2 == <<"git:", "//repo2/", "bar.ts">>
textDocuments == <<Doc1, Doc2>>
Positions == {<<0, 2>>, <<1, 0>>}

\* sourcegraph.WorkspaceRoot
WorkspaceRoot(u) == [uri |-> u]

\* new URL(relative, base).href
URLResolve(relative, base) ==
    IF relative # <<>> /\ Head(relative) \in Schemes THEN relative
    ELSE IF Last(base) \in DirTokens \cup Schemes THEN base \o relative
    ELSE Front(base) \o relative

\* path.posix.basename(url.pathname)
Basename(u) == IF Len(u) > 2 THEN <<Last(u)>> ELSE <<>>

ReplaceScheme(u, from, to) == IF u # <<>> /\ Head(u) = from THEN <<to>> \o Tail(u) ELSE u

UriConfigs == {"identity", "rewrite"}
clientToServerURIOf(config, u) == IF config = "identity" THEN u ELSE ReplaceScheme(u, "git:", "file:")
serverToClientURIOf(config, u) == IF config = "identity" THEN u ELSE ReplaceScheme(u, "file:", "git:")
clientToServerURI(u) == clientToServerURIOf(uriConfig, u)
serverToClientURI(u) == serverToClientURIOf(uriConfig, u)

(***************************************************************************)
(* JSON values                                                             *)
(***************************************************************************)
IndexKeys == <<"0", "1", "2", "3">>
JString(s) == {<<<<>>, s>>}
IsJString(v) == \E p \in v : p[1] = <<>>
JField(k, v) == {<<<<k>> \o p[1], p[2]>> : p \in v}
JGet(o, k) == {<<Tail(p[1]), p[2]>> : p \in {q \in o : q[1] # <<>> /\ Head(q[1]) = k}}
JWithout(o, k) == {q \in o : q[1] = <<>> \/ Head(q[1]) # k}
\* { ...o, [k]: v }
JSpreadWith(o, k, v) == JWithout(o, k) \cup JField(k, v)
\* the own enumerable properties of an array, as `...array` inside an object literal copies them
JArrayProperties(arr) == UNION {JField(IndexKeys[i], arr[i]) : i \in 1..Len(arr)}
\* o.pattern || '**'
PatternOrDefault(o) ==
    LET p == JGet(o, "pattern")
    IN IF IsJString(p) /\ (CHOOSE q \in p : q[1] = <<>>)[2] # <<>>
       THEN (CHOOSE q \in p : q[1] = <<>>)[2]
       ELSE <<"**">>

(***************************************************************************)
(* scopeDocumentSelectorToRoot                                             *)
(***************************************************************************)
DefaultedSelector(documentSelector) ==
    IF documentSelector = Null \/ Len(The(documentSelector)) = 0
    THEN <<JField("pattern", JString(<<"**">>))>>
    ELSE The(documentSelector)

AsDocumentFilter(selector) == IF IsJString(selector) THEN JField("language", selector) ELSE selector

scopeDocumentSelectorToRoot(documentSelector, rootUri) ==
    LET ds == DefaultedSelector(documentSelector)
    IN IF rootUri = Null THEN ds
       ELSE [i \in 1..Len(ds) |->
                JSpreadWith(JArrayProperties(ds), "pattern",
                            JString(URLResolve(PatternOrDefault(AsDocumentFilter(ds[i])), The(rootUri))))]

(***************************************************************************)
(* Inputs of the selector scoping specification                            *)
(***************************************************************************)
SelectorItems ==
    { JString(<<"typescript">>),
      JField("language", JString(<<"typescript">>)),
      JField("pattern", JString(<<"*.ts">>)),
      JField("language", JString(<<"typescript">>)) \cup JField("pattern", JString(<<"*.ts">>)),
      JField("scheme", JString(<<"git">>)),
      JField("pattern", JString(<<"file:", "//other/", "**">>)) }
RECURSIVE SeqsUpTo(_, _)
SeqsUpTo(S, n) ==
    IF n = 0 THEN {<<>>}
    ELSE LET shorter == SeqsUpTo(S, n - 1)
         IN shorter \cup {Append(s, x) : s \in {t \in shorter : Len(t) = n - 1}, x \in S}
SelectorInputs == {Null} \cup {Some(s) : s \in SeqsUpTo(SelectorItems, MaxSelectorLen)}
ScopeRootInputs == {Null} \cup {Some(u) : u \in RootUris}

(***************************************************************************)
(* Protocol messages.  The log of a session holds the sendRequest and      *)
(* sendNotification calls made on its connection; accepted tells whether   *)
(* the connection was open at the call (otherwise the call throws).        *)
(***************************************************************************)
HoverMethod == "textDocument/hover"
DefinitionMethod == "textDocument/definition"
ReferencesMethod == "textDocument/references"
TypeDefinitionMethod == "textDocument/typeDefinition"
ImplementationMethod == "textDocument/implementation"
UnknownMethod == "textDocument/rename"

\* toLSPWorkspaceFolder of ./lsp-conversion
toLSPWorkspaceFolder(root) == [uri |-> root.uri, name |-> <<>>]
MapFolders(rs) == [i \in 1..Len(rs) |-> toLSPWorkspaceFolder(rs[i])]

\* lodash differenceBy(a, b, root => root.uri.toString())
differenceBy_ByIdentity(a, b) == a
differenceBy(a, b) == SeqFilter(a, {r \in Range(a) : \A x \in Range(b) : x.uri # r.uri})

InitializeParams(rootUri, workspaceFolders) ==
    [method |-> "initialize", rootUri |-> rootUri, workspaceFolders |-> workspaceFolders]
DidOpenParams(uri) == [method |-> "textDocument/didOpen", uri |-> uri]
DidChangeWorkspaceFolders(added, removed) ==
    [method |-> "workspace/didChangeWorkspaceFolders", added |-> added, removed |-> removed]
HoverParams(uri, position, call) ==
    [method |-> HoverMethod, uri |-> uri, position |-> position, call |-> call]

\* the params of the initialize request of multi-root mode
MultiRootInitializeParams_NoFolders(rs) == InitializeParams(Null, Null)
MultiRootInitializeParams(rs) == InitializeParams(Null, Some(MapFolders(rs)))

\* the params provideHover sends; call numbers the invocation
HoverRequestParams_RawUri(textDocument, position, call) == HoverParams(textDocument, position, call)
HoverRequestParams(textDocument, position, call) ==
    HoverParams(clientToServerURI(textDocument), position, call)

(***************************************************************************)
(* Sessions: one per connect() call                                        *)
(***************************************************************************)
NewSession(origin, root) ==
    [origin |-> origin,        \* "register", "root" or "call": who called connect()
     root |-> root,            \* the rootUri the connection is initialized with, or Null
     state |-> "connecting",   \* "connecting", "open", "closed" or "failed"
     phase |-> "none",         \* initializeConnection: "none", "initializing", "initialized", "initFailed"
     managed |-> FALSE,        \* () => connection.dispose() was added to the outer subscriptions
     disposeCalls |-> 0,       \* connection.dispose() invocations
     teardowns |-> 0,          \* runs of the teardown of connect()'s subscriptions
     waiters |-> <<>>,         \* continuations awaiting the connection promise, in order
     sent |-> <<>>]

IsOpen(ss, s) == ss[s].state = "open"

\* connection.sendRequest / connection.sendNotification
Send(ss, s, m) == [ss EXCEPT ![s].sent = Append(@, m @@ [accepted |-> IsOpen(ss, s)])]

\* connection.dispose(): onDispose and the socket close listener both run
\* subscriptions.unsubscribe(), whose teardown runs once
Dispose_TeardownPerCall(ss, s) ==
    [ss EXCEPT ![s].disposeCalls = @ + 1,
               ![s].state = IF @ = "open" THEN "closed" ELSE @,
               ![s].teardowns = @ + 1]
Dispose(ss, s) ==
    [ss EXCEPT ![s].disposeCalls = @ + 1,
               ![s].state = IF @ = "open" THEN "closed" ELSE @,
               ![s].teardowns = IF ss[s].state = "open" THEN @ + 1 ELSE @]

\* subscriptions.add(() => connection.dispose()); a closed rxjs Subscription
\* runs an added teardown at once
SubscriptionsAdd_KeptWhenClosed(ss, s, closed) == [ss EXCEPT ![s].managed = TRUE]
SubscriptionsAdd(ss, s, closed) ==
    IF closed THEN Dispose([ss EXCEPT ![s].managed = TRUE], s)
    ELSE [ss EXCEPT ![s].managed = TRUE]

\* the finally block of withConnection in multi-root mode
MultiRootFinally_OnSuccessOnly(ss, s, temp, outcome) ==
    IF temp # Null /\ outcome = "resolved"
    THEN Send(ss, s, [method |-> "workspace/didChangeWorkspaceFolders",
                      added |-> Null, removed |-> Some(<<The(temp)>>)])
    ELSE ss
MultiRootFinally(ss, s, temp, outcome) ==
    IF temp # Null
    THEN Send(ss, s, [method |-> "workspace/didChangeWorkspaceFolders",
                      added |-> Null, removed |-> Some(<<The(temp)>>)])
    ELSE ss

\* the finally block of withConnection in single-root mode
SingleRootFinally_OnSuccessOnly(ss, s, outcome) == IF outcome = "resolved" THEN Dispose(ss, s) ELSE ss
SingleRootFinally(ss, s, outcome) == Dispose(ss, s)

RECURSIVE DisposeAll(_, _)
DisposeAll(ss, todo) ==
    IF todo = {} THEN ss
    ELSE LET s == CHOOSE x \in todo : \A y \in todo : x <= y
         IN DisposeAll(Dispose(ss, s), todo \ {s})

(***************************************************************************)
(* syncTextDocuments                                                       *)
(***************************************************************************)
RECURSIVE SyncFrom(_, _, _, _)
SyncFrom(ss, s, docs, rs) ==
    IF docs = <<>> THEN ss
    ELSE LET serverTextDocumentUri == clientToServerURI(Head(docs))
         IN IF ~ \E i \in 1..Len(rs) : IsPrefix(rs[i].uri, serverTextDocumentUri)
            THEN SyncFrom(ss, s, Tail(docs), rs)
            ELSE SyncFrom(Send(ss, s, DidOpenParams(serverTextDocumentUri)), s, Tail(docs), rs)
syncTextDocuments(ss, s, rs) == SyncFrom(ss, s, textDocuments, rs)

(***************************************************************************)
(* Registrations and provider handles                                      *)
(***************************************************************************)
Uuid(n) == [src |-> "uuid", n |-> n]
ServerId(n) == [src |-> "server", n |-> n]
Registration(id, method, documentSelector) ==
    [id |-> id, method |-> method, documentSelector |-> documentSelector]

CapabilityNames == <<"hoverProvider", "definitionProvider", "typeDefinitionProvider",
                     "implementationProvider", "referencesProvider">>
\* the request method each branch of staticRegistrationsFromCapabilities pushes
StaticMethodOf(capability) ==
    CASE capability = "hoverProvider" -> HoverMethod
      [] capability = "definitionProvider" -> DefinitionMethod
      [] capability = "typeDefinitionProvider" -> ImplementationMethod
      [] capability = "implementationProvider" -> ImplementationMethod
      [] capability = "referencesProvider" -> ReferencesMethod

RECURSIVE StaticFrom(_, _, _)
\* capabilities are boolean flags here, so every id is a fresh uuid.v1()
StaticFrom(capabilities, names, drawn) ==
    IF names = <<>> THEN <<>>
    ELSE IF Head(names) \in capabilities
         THEN <<Registration(Uuid(drawn + 1), StaticMethodOf(Head(names)), Null)>>
              \o StaticFrom(capabilities, Tail(names), drawn + 1)
         ELSE StaticFrom(capabilities, Tail(names), drawn)
staticRegistrationsFromCapabilities(capabilities, drawn) ==
    StaticFrom(capabilities, CapabilityNames, drawn)

SupportedMethods == {HoverMethod, DefinitionMethod, ReferencesMethod,
                     TypeDefinitionMethod, ImplementationMethod}
\* the selector each case of the switch hands to the host
HostSelector(registration, scopeRootUri) ==
    IF registration.method = HoverMethod
    THEN scopeDocumentSelectorToRoot(registration.documentSelector, scopeRootUri)
    ELSE IF registration.documentSelector = Null THEN <<>> ELSE The(registration.documentSelector)

\* the didOpen notifications already sent on the connection of session s
DidOpenCount(ss, s) ==
    Cardinality({i \in 1..Len(ss[s].sent) : ss[s].sent[i].method = "textDocument/didOpen"})

\* openedBefore: how many didOpen notifications had been sent on the
\* connection when the provider was registered with the host
ProviderHandle(s, registration, scopeRootUri, static, openedBefore) ==
    [session |-> s, id |-> registration.id, method |-> registration.method,
     selector |-> HostSelector(registration, scopeRootUri), static |-> static, active |-> TRUE,
     openedBefore |-> openedBefore]

MapSet(m, k, v) == [x \in DOMAIN m \cup {k} |-> IF x = k THEN v ELSE m[x]]

RECURSIVE registerCapabilities(_, _, _, _, _, _)
\* the connection is session s of ss; returns the provider handles and the
\* registrationSubscriptions map after the loop
registerCapabilities(ss, s, scopeRootUri, registrations, static, st) ==
    IF registrations = <<>> THEN st
    ELSE LET registration == Head(registrations)
         IN IF registration.method \notin SupportedMethods
            THEN st \* default: return
            ELSE registerCapabilities(ss, s, scopeRootUri, Tail(registrations), static,
                    [providers |-> Append(st.providers,
                                          ProviderHandle(s, registration, scopeRootUri, static,
                                                         DidOpenCount(ss, s))),
                     subs |-> MapSet(st.subs, registration.id, Len(st.providers) + 1)])

\* initializeConnection after its await: the open documents are synced, then
\* the static registrations are synthesized and registered
initializeConnection_RegisterFirst(ss, s, rs, capabilities, drawn, st) ==
    LET staticRegistrations == staticRegistrationsFromCapabilities(capabilities, drawn)
        registered == registerCapabilities(ss, s, ss[s].root, staticRegistrations, TRUE, st)
    IN [sessions |-> syncTextDocuments(ss, s, rs), providers |-> registered.providers,
        subs |-> registered.subs, drawn |-> drawn + Len(staticRegistrations)]
initializeConnection(ss, s, rs, capabilities, drawn, st) ==
    LET synced == syncTextDocuments(ss, s, rs)
        staticRegistrations == staticRegistrationsFromCapabilities(capabilities, drawn)
        registered == registerCapabilities(synced, s, ss[s].root, staticRegistrations, TRUE, st)
    IN [sessions |-> synced, providers |-> registered.providers,
        subs |-> registered.subs, drawn |-> drawn + Len(staticRegistrations)]

(***************************************************************************)
(* Hover results                                                           *)
(***************************************************************************)
HoverResults == {[contents |-> <<"Hello World">>, uri |-> Null],
                 [contents |-> <<"Hello World">>, uri |-> Some(<<"file:", "//repo1/", "foo.ts">>)]}
\* rewriteUris of ./lsp-conversion: every uri field of the payload is replaced
\* with the image under the given direction, a map over the payload's uris
rewriteUris(result, direction) == [result EXCEPT !.uri = {direction[u] : u \in @}]
\* convertHover of ./lsp-conversion adapts the shape only
convertHover(result) == result

(***************************************************************************)
(* The connection promises of single-root mode and their continuations     *)
(***************************************************************************)
\* root.toString() of a WorkspaceRoot object
RootToString(root) == <<"[object Object]">>
\* root.uri.toString(), url.href
Href(u) == u

MapDelete(m, k) == [x \in DOMAIN m \ {k} |-> m[x]]

PromiseState(session) ==
    CASE session.phase = "initialized" -> "resolved"
      [] session.phase = "initFailed" -> "rejected"
      [] OTHER -> "pending"

NewCall(root) ==
    [root |-> root,
     pc |-> "start",           \* "awaitTracked", "connecting", "running" or "done"
     session |-> 0,            \* the connection handed to fn
     temp |-> Null,            \* tempWorkspaceFolder
     passedState |-> "none",   \* state of the connection when fn was called
     fnOutcome |-> "none", fnValue |-> "none",
     outcome |-> "pending", value |-> "none"]

\* fn(connection) is called
CallFn(ss, call, s) == [call EXCEPT !.pc = "running", !.session = s, !.passedState = ss[s].state]
\* withConnection throws before fn was called
CallThrow(call, error) == [call EXCEPT !.pc = "done", !.outcome = "rejected", !.value = error]

RemovalWaiter == [kind |-> "removal", call |-> 0]
CallWaiter(c) == [kind |-> "call", call |-> c]

RECURSIVE Settle(_, _, _, _, _)
\* runs the continuations awaiting the connection promise of s, in order
Settle(ss, cs, s, ws, resolved) ==
    IF ws = <<>> THEN [sessions |-> [ss EXCEPT ![s].waiters = <<>>], calls |-> cs]
    ELSE LET w == Head(ws)
         IN IF w.kind = "removal"
            THEN Settle(IF resolved THEN Dispose(ss, s) ELSE ss, cs, s, Tail(ws), resolved)
            ELSE Settle(ss,
                        [cs EXCEPT ![w.call] = IF resolved THEN CallFn(ss, @, s)
                                               ELSE CallThrow(@, "connectionError")],
                        s, Tail(ws), resolved)

\* the catch block of the connection promise: the error is logged and the
\* entry of root.uri.toString() deleted, then the promise rejects
ConnectionFailed(ss, cs, map, s) ==
    LET st == Settle([ss EXCEPT ![s].phase = "initFailed"], cs, s, ss[s].waiters, FALSE)
    IN [sessions |-> st.sessions, calls |-> st.calls, map |-> MapDelete(map, Href(The(ss[s].root)))]

RECURSIVE AddRoots(_, _, _)
\* "Create new connections for added workspaces"
AddRoots(ss, map, added) ==
    IF added = <<>> THEN [sessions |-> ss, map |-> map]
    ELSE AddRoots(Append(ss, NewSession("root", Some(Head(added).uri))),
                  MapSet(map, RootToString(Head(added)), Len(ss) + 1),
                  Tail(added))

RECURSIVE RemoveRoots(_, _, _)
\* "Close connections for removed workspaces"
RemoveRoots(ss, map, removed) ==
    IF removed = <<>> THEN ss
    ELSE LET key == Href(Head(removed).uri)
         IN IF key \notin DOMAIN map THEN RemoveRoots(ss, map, Tail(removed))
            ELSE LET s == map[key]
                 IN RemoveRoots(CASE PromiseState(ss[s]) = "resolved" -> Dispose(ss, s)
                                  [] PromiseState(ss[s]) = "pending" ->
                                        [ss EXCEPT ![s].waiters = Append(@, RemovalWaiter)]
                                  [] OTHER -> ss,
                                map, Tail(removed))

(***************************************************************************)
(* Initial state and the inputs of the manager                             *)
(***************************************************************************)
RootLists == {<<>>} \cup {<<WorkspaceRoot(u)>> : u \in RootUris}
             \cup {<<WorkspaceRoot(p[1]), WorkspaceRoot(p[2])>> :
                      p \in {q \in RootUris \X RootUris : q[1] # q[2]}}
CapabilityChoices == {{}, {"hoverProvider", "definitionProvider"}}
\* the root lists the host may have open when register() is called
StartupRootLists == {<<>>, <<WorkspaceRoot(Repo1)>>, <<WorkspaceRoot(Repo1), WorkspaceRoot(Repo2)>>}
FnValues == {"v1", "v2"}
RegistrationChoices ==
    {Registration(ServerId(p[1]), p[2], Some(<<JField("language", JString(<<"typescript">>))>>)) :
        p \in {<<1, HoverMethod>>, <<1, DefinitionMethod>>, <<2, DefinitionMethod>>,
               <<1, UnknownMethod>>}}
RegistrationLists == SeqsUpTo(RegistrationChoices, 2) \ {<<>>}

ScopeIdle ==
    /\ scopePc = "off"
    /\ scopeSelector = Null
    /\ scopeRoot = Null
    /\ scopeResult = <<>>

StaticIdle ==
    /\ staticPc = "off"
    /\ staticCapabilities = {}
    /\ staticDrawn = 0
    /\ staticResult = <<>>

InstallIdle ==
    /\ installPc = "off"
    /\ installRegistrations = <<>>
    /\ installRoot = Null
    /\ installResult = [providers |-> <<>>, subs |-> <<>>]

ProgressIdle ==
    /\ activeWindow = FALSE
    /\ progressReporters = <<>>
    /\ reporters = <<>>
    /\ progressClosed = TRUE
    /\ progressLog = <<>>

DiagnosticsIdle ==
    /\ visibleViewComponents = <<>>
    /\ diagnosticsByUri = <<>>
    /\ decorations = <<>>
    /\ diagnosticsClosed = {}
    /\ diagnosticsEvents = <<>>

Init ==
    /\ supportsWorkspaceFolders \in BOOLEAN
    /\ uriConfig \in UriConfigs
    /\ serverCapabilities \in CapabilityChoices
    /\ roots \in StartupRootLists
    /\ registerPc = "start"
    /\ rootsBefore = <<>>
    /\ forwarding = FALSE
    /\ unsubscribed = FALSE
    /\ sessions = <<>>
    /\ connectionsByRootUri = <<>>
    /\ providers = <<>>
    /\ registrationSubscriptions = <<>>
    /\ uuidCounter = 0
    /\ calls = <<>>
    /\ hoverCalls = <<>>
    /\ rootChanges = 0
    /\ registrationRequests = 0
    /\ ScopeIdle
    /\ StaticIdle
    /\ InstallIdle
    /\ ProgressIdle
    /\ DiagnosticsIdle

\* operations started by the host or the server so far
Ops == rootChanges + Len(calls) + Len(hoverCalls) + registrationRequests

(***************************************************************************)
(* register()                                                              *)
(***************************************************************************)
\* register() runs up to its first await: connect() in multi-root mode; in
\* single-root mode it subscribes to the root changes and returns
Register ==
    /\ registerPc = "start"
    /\ IF supportsWorkspaceFolders
       THEN /\ sessions' = Append(sessions, NewSession("register", Null))
            /\ registerPc' = "connecting"
            /\ UNCHANGED <<rootsBefore, forwarding>>
       ELSE /\ rootsBefore' = roots
            /\ forwarding' = TRUE
            /\ registerPc' = "ready"
            /\ UNCHANGED sessions
    /\ UNCHANGED <<supportsWorkspaceFolders, uriConfig, serverCapabilities, roots, unsubscribed,
                   connectionsByRootUri, providers, registrationSubscriptions, uuidCounter,
                   calls, hoverCalls, rootChanges, registrationRequests, scopeVars, staticVars, installVars,
                   progressVars, diagnosticsVars>>

\* the socket of a connecting session opens and connect() resolves; the
\* caller of connect() continues up to its next await
SocketOpen(s) ==
    /\ sessions[s].state = "connecting"
    /\ LET opened == [sessions EXCEPT ![s].state = "open"]
           added == SubscriptionsAdd(opened, s, unsubscribed)
       IN CASE sessions[s].origin = "register" ->
                 /\ sessions' = [Send(added, s, MultiRootInitializeParams(roots))
                                   EXCEPT ![s].phase = "initializing"]
                 /\ registerPc' = "initializing"
                 /\ UNCHANGED <<calls, connectionsByRootUri>>
            [] sessions[s].origin = "root" ->
                 LET sent == Send(added, s, InitializeParams(Some(Href(The(sessions[s].root))), Null))
                 IN IF IsOpen(added, s)
                    THEN /\ sessions' = [sent EXCEPT ![s].phase = "initializing"]
                         /\ UNCHANGED <<calls, connectionsByRootUri, registerPc>>
                    ELSE LET failed == ConnectionFailed(sent, calls, connectionsByRootUri, s)
                         IN /\ sessions' = failed.sessions
                            /\ calls' = failed.calls
                            /\ connectionsByRootUri' = failed.map
                            /\ UNCHANGED registerPc
            [] sessions[s].origin = "call" ->
                 LET c == CHOOSE i \in 1..Len(calls) :
                              calls[i].pc = "connecting" /\ calls[i].session = s
                 IN /\ sessions' = added
                    /\ calls' = [calls EXCEPT ![c] = CallFn(added, @, s)]
                    /\ UNCHANGED <<connectionsByRootUri, registerPc>>
    /\ UNCHANGED <<supportsWorkspaceFolders, uriConfig, serverCapabilities, roots, rootsBefore,
                   forwarding, unsubscribed, providers, registrationSubscriptions, uuidCounter,
                   hoverCalls, rootChanges, registrationRequests, scopeVars, staticVars, installVars,
                   progressVars, diagnosticsVars>>

\* the socket of a connecting session reports an error and connect() throws
SocketError(s) ==
    /\ sessions[s].state = "connecting"
    /\ LET errored == [sessions EXCEPT ![s].state = "failed"]
       IN CASE sessions[s].origin = "register" ->
                 /\ sessions' = errored
                 /\ registerPc' = "failed"
                 /\ UNCHANGED <<calls, connectionsByRootUri>>
            [] sessions[s].origin = "root" ->
                 LET failed == ConnectionFailed(errored, calls, connectionsByRootUri, s)
                 IN /\ sessions' = failed.sessions
                    /\ calls' = failed.calls
                    /\ connectionsByRootUri' = failed.map
                    /\ UNCHANGED registerPc
            [] sessions[s].origin = "call" ->
                 LET c == CHOOSE i \in 1..Len(calls) :
                              calls[i].pc = "connecting" /\ calls[i].session = s
                 IN /\ sessions' = errored
                    /\ calls' = [calls EXCEPT ![c] = CallThrow(@, "connectError")]
                    /\ UNCHANGED <<connectionsByRootUri, registerPc>>
    /\ UNCHANGED <<supportsWorkspaceFolders, uriConfig, serverCapabilities, roots, rootsBefore,
                   forwarding, unsubscribed, providers, registrationSubscriptions, uuidCounter,
                   hoverCalls, rootChanges, registrationRequests, scopeVars, staticVars, installVars,
                   progressVars, diagnosticsVars>>

\* initializeConnection after the initialize response; then the caller of
\* initializeConnection continues
InitializeResponse(s) ==
    /\ sessions[s].phase = "initializing"
    /\ sessions[s].state = "open"
    /\ LET initialized == initializeConnection(sessions, s, roots, serverCapabilities, uuidCounter,
                              [providers |-> providers, subs |-> registrationSubscriptions])
           resolved == Settle([initialized.sessions EXCEPT ![s].phase = "initialized"], calls, s,
                              sessions[s].waiters, TRUE)
       IN /\ providers' = initialized.providers
          /\ registrationSubscriptions' = initialized.subs
          /\ uuidCounter' = initialized.drawn
          /\ sessions' = resolved.sessions
          /\ calls' = resolved.calls
          /\ IF sessions[s].origin = "register"
             THEN /\ rootsBefore' = roots
                  /\ forwarding' = TRUE
                  /\ registerPc' = "ready"
             ELSE UNCHANGED <<rootsBefore, forwarding, registerPc>>
    /\ UNCHANGED <<supportsWorkspaceFolders, uriConfig, serverCapabilities, roots, unsubscribed,
                   connectionsByRootUri, hoverCalls, rootChanges, registrationRequests, scopeVars, staticVars, installVars,
                   progressVars, diagnosticsVars>>

\* the initialize request fails
InitializeError(s) ==
    /\ sessions[s].phase = "initializing"
    /\ IF sessions[s].origin = "register"
       THEN /\ sessions' = [sessions EXCEPT ![s].phase = "initFailed"]
            /\ registerPc' = "failed"
            /\ UNCHANGED <<calls, connectionsByRootUri>>
       ELSE LET failed == ConnectionFailed(sessions, calls, connectionsByRootUri, s)
            IN /\ sessions' = failed.sessions
               /\ calls' = failed.calls
               /\ connectionsByRootUri' = failed.map
               /\ UNCHANGED registerPc
    /\ UNCHANGED <<supportsWorkspaceFolders, uriConfig, serverCapabilities, roots, rootsBefore,
                   forwarding, unsubscribed, providers, registrationSubscriptions, uuidCounter,
                   hoverCalls, rootChanges, registrationRequests, scopeVars, staticVars, installVars,
                   progressVars, diagnosticsVars>>

(***************************************************************************)
(* Root changes                                                            *)
(***************************************************************************)
\* the host replaces its root list and fires onDidChangeRoots; the
\* subscriber of register(), when live, handles the [before, after] pair
RootChange(after) ==
    /\ registerPc # "start"
    /\ rootChanges < MaxRootChanges
    /\ Ops < MaxOps
    /\ after # roots
    /\ roots' = after
    /\ rootChanges' = rootChanges + 1
    /\ LET added == differenceBy(after, rootsBefore)
           removed == differenceBy(rootsBefore, after)
       IN CASE ~forwarding ->
                 UNCHANGED <<rootsBefore, forwarding, sessions, connectionsByRootUri>>
            [] forwarding /\ supportsWorkspaceFolders ->
                 /\ sessions' = Send(sessions, 1,
                                     DidChangeWorkspaceFolders(Some(MapFolders(added)),
                                                               Some(MapFolders(removed))))
                 \* a throwing subscriber is unsubscribed by rxjs
                 /\ forwarding' = IsOpen(sessions, 1)
                 /\ rootsBefore' = after
                 /\ UNCHANGED connectionsByRootUri
            [] forwarding /\ ~supportsWorkspaceFolders ->
                 /\ Len(sessions) + Len(added) <= MaxSessions
                 /\ LET connected == AddRoots(sessions, connectionsByRootUri, added)
                    IN /\ sessions' = RemoveRoots(connected.sessions, connected.map, removed)
                       /\ connectionsByRootUri' = connected.map
                 /\ rootsBefore' = after
                 /\ UNCHANGED forwarding
    /\ UNCHANGED <<supportsWorkspaceFolders, uriConfig, serverCapabilities, registerPc,
                   unsubscribed, providers, registrationSubscriptions, uuidCounter, calls,
                   hoverCalls, registrationRequests, scopeVars, staticVars, installVars,
                   progressVars, diagnosticsVars>>

(***************************************************************************)
(* withConnection                                                          *)
(***************************************************************************)
\* withConnection(workspaceFolder, fn) runs up to its first suspension
WithConnection(workspaceFolder) ==
    /\ registerPc = "ready"
    /\ Len(calls) < MaxCalls
    /\ Ops < MaxOps
    /\ LET c == Len(calls) + 1
           call == NewCall(workspaceFolder)
       IN IF supportsWorkspaceFolders
          THEN LET known == \E i \in 1..Len(roots) : Href(roots[i].uri) = Href(workspaceFolder)
                   tempWorkspaceFolder ==
                       IF known THEN Null
                       ELSE Some([uri |-> Href(workspaceFolder), name |-> Basename(workspaceFolder)])
                   notified ==
                       IF known THEN sessions
                       ELSE Send(sessions, 1,
                                 DidChangeWorkspaceFolders(Some(<<The(tempWorkspaceFolder)>>), Null))
               IN /\ sessions' = notified
                  /\ calls' = Append(calls,
                                IF ~known /\ ~IsOpen(sessions, 1)
                                THEN CallThrow([call EXCEPT !.temp = tempWorkspaceFolder], "sendError")
                                ELSE CallFn(sessions, [call EXCEPT !.temp = tempWorkspaceFolder], 1))
                  /\ UNCHANGED connectionsByRootUri
          ELSE LET key == Href(workspaceFolder)
               IN IF key \in DOMAIN connectionsByRootUri
                  THEN LET s == connectionsByRootUri[key]
                       IN /\ CASE PromiseState(sessions[s]) = "resolved" ->
                                    /\ calls' = Append(calls, CallFn(sessions, call, s))
                                    /\ UNCHANGED sessions
                               [] PromiseState(sessions[s]) = "pending" ->
                                    /\ calls' = Append(calls, [call EXCEPT !.pc = "awaitTracked",
                                                                           !.session = s])
                                    /\ sessions' = [sessions EXCEPT ![s].waiters =
                                                        Append(@, CallWaiter(c))]
                               [] OTHER ->
                                    /\ calls' = Append(calls, CallThrow(call, "connectionError"))
                                    /\ UNCHANGED sessions
                          /\ UNCHANGED connectionsByRootUri
                  ELSE /\ Len(sessions) < MaxSessions
                       /\ sessions' = Append(sessions, NewSession("call", Null))
                       /\ calls' = Append(calls, [call EXCEPT !.pc = "connecting",
                                                              !.session = Len(sessions) + 1])
                       /\ UNCHANGED connectionsByRootUri
    /\ UNCHANGED <<supportsWorkspaceFolders, uriConfig, serverCapabilities, roots, registerPc,
                   rootsBefore, forwarding, unsubscribed, providers, registrationSubscriptions,
                   uuidCounter, hoverCalls, rootChanges, registrationRequests, scopeVars, staticVars, installVars,
                   progressVars, diagnosticsVars>>

\* the promise of fn settles and the finally block of withConnection runs
FnSettle(c, outcome, value) ==
    /\ calls[c].pc = "running"
    /\ LET s == calls[c].session
           settled == [calls[c] EXCEPT !.pc = "done", !.fnOutcome = outcome, !.fnValue = value]
       IN IF supportsWorkspaceFolders
          THEN /\ sessions' = MultiRootFinally(sessions, s, calls[c].temp, outcome)
               \* a sendNotification that throws in the finally block replaces the outcome
               /\ calls' = [calls EXCEPT ![c] =
                               IF calls[c].temp # Null /\ ~IsOpen(sessions, s)
                               THEN [settled EXCEPT !.outcome = "rejected", !.value = "sendError"]
                               ELSE [settled EXCEPT !.outcome = outcome, !.value = value]]
          ELSE /\ sessions' = SingleRootFinally(sessions, s, outcome)
               /\ calls' = [calls EXCEPT ![c] = [settled EXCEPT !.outcome = outcome, !.value = value]]
    /\ UNCHANGED <<supportsWorkspaceFolders, uriConfig, serverCapabilities, roots, registerPc,
                   rootsBefore, forwarding, unsubscribed, connectionsByRootUri, providers,
                   registrationSubscriptions, uuidCounter, hoverCalls, rootChanges,
                   registrationRequests, scopeVars, staticVars, installVars,
                   progressVars, diagnosticsVars>>

(***************************************************************************)
(* Teardown                                                                *)
(***************************************************************************)
\* LSPClient.unsubscribe(): subscriptions.unsubscribe()
ClientUnsubscribe ==
    /\ registerPc = "ready"
    /\ ~unsubscribed
    /\ unsubscribed' = TRUE
    /\ forwarding' = FALSE
    /\ sessions' = DisposeAll(sessions, {s \in 1..Len(sessions) : sessions[s].managed})
    /\ UNCHANGED <<supportsWorkspaceFolders, uriConfig, serverCapabilities, roots, registerPc,
                   rootsBefore, connectionsByRootUri, providers, registrationSubscriptions,
                   uuidCounter, calls, hoverCalls, rootChanges, registrationRequests, scopeVars, staticVars, installVars,
                   progressVars, diagnosticsVars>>

\* the 'close' listener of the socket: subscriptions.unsubscribe() of connect()
SocketClose(s) ==
    /\ sessions[s].state = "open"
    /\ sessions' = [sessions EXCEPT ![s].state = "closed", ![s].teardowns = @ + 1]
    /\ UNCHANGED <<supportsWorkspaceFolders, uriConfig, serverCapabilities, roots, registerPc,
                   rootsBefore, forwarding, unsubscribed, connectionsByRootUri, providers,
                   registrationSubscriptions, uuidCounter, calls, hoverCalls, rootChanges,
                   registrationRequests, scopeVars, staticVars, installVars,
                   progressVars, diagnosticsVars>>

(***************************************************************************)
(* Dynamic registration and provider invocation                            *)
(***************************************************************************)
\* the handler of client/registerCapability installed by initializeConnection
RegistrationRequest(s, registrations) ==
    /\ sessions[s].phase = "initialized"
    /\ sessions[s].state = "open"
    /\ registrationRequests < MaxRegistrationRequests
    /\ Ops < MaxOps
    /\ registrationRequests' = registrationRequests + 1
    /\ LET registered == registerCapabilities(sessions, s, sessions[s].root, registrations, FALSE,
                             [providers |-> providers, subs |-> registrationSubscriptions])
       IN /\ providers' = registered.providers
          /\ registrationSubscriptions' = registered.subs
    /\ UNCHANGED <<supportsWorkspaceFolders, uriConfig, serverCapabilities, roots, registerPc,
                   rootsBefore, forwarding, unsubscribed, sessions, connectionsByRootUri,
                   uuidCounter, calls, hoverCalls, rootChanges, scopeVars, staticVars, installVars,
                   progressVars, diagnosticsVars>>

\* provideHover up to its await: the request is sent
provideHover(h, textDocument, position) ==
    /\ Len(hoverCalls) < MaxHoverCalls
    /\ Ops < MaxOps
    /\ providers[h].method = HoverMethod
    /\ providers[h].active
    /\ LET s == providers[h].session
       IN /\ sessions' = Send(sessions, s,
                              HoverRequestParams(textDocument, position, Len(hoverCalls) + 1))
          /\ hoverCalls' = Append(hoverCalls,
                              [provider |-> h, textDocument |-> textDocument, position |-> position,
                               pc |-> IF IsOpen(sessions, s) THEN "requested" ELSE "rejected",
                               result |-> Null, returned |-> Null])
    /\ UNCHANGED <<supportsWorkspaceFolders, uriConfig, serverCapabilities, roots, registerPc,
                   rootsBefore, forwarding, unsubscribed, connectionsByRootUri, providers,
                   registrationSubscriptions, uuidCounter, calls, rootChanges,
                   registrationRequests, scopeVars, staticVars, installVars,
                   progressVars, diagnosticsVars>>

\* provideHover after its await: the result is rewritten, converted and returned
HoverResponse(i, result) ==
    /\ hoverCalls[i].pc = "requested"
    /\ IsOpen(sessions, providers[hoverCalls[i].provider].session)
    /\ hoverCalls' = [hoverCalls EXCEPT ![i].pc = "returned",
                                        ![i].result = Some(result),
                                        ![i].returned =
                                            Some(convertHover(rewriteUris(result,
                                                [u \in result.uri |-> serverToClientURI(u)])))]
    /\ UNCHANGED <<supportsWorkspaceFolders, uriConfig, serverCapabilities, roots, registerPc,
                   rootsBefore, forwarding, unsubscribed, sessions, connectionsByRootUri,
                   providers, registrationSubscriptions, uuidCounter, calls, rootChanges,
                   registrationRequests, scopeVars, staticVars, installVars,
                   progressVars, diagnosticsVars>>

(***************************************************************************)
(* The manager specification                                               *)
(***************************************************************************)
Next ==
    \/ Register
    \/ \E s \in 1..Len(sessions) : SocketOpen(s)
    \/ \E s \in 1..Len(sessions) : SocketError(s)
    \/ \E s \in 1..Len(sessions) : InitializeResponse(s)
    \/ \E s \in 1..Len(sessions) : InitializeError(s)
    \/ \E after \in RootLists : RootChange(after)
    \/ \E workspaceFolder \in RootUris : WithConnection(workspaceFolder)
    \/ \E c \in 1..Len(calls), outcome \in {"resolved", "rejected"}, value \in FnValues :
          FnSettle(c, outcome, value)
    \/ ClientUnsubscribe
    \/ \E s \in 1..Len(sessions) : SocketClose(s)
    \/ \E s \in 1..Len(sessions), registrations \in RegistrationLists :
          RegistrationRequest(s, registrations)
    \/ \E h \in 1..Len(providers), d \in 1..Len(textDocuments), position \in Positions :
          provideHover(h, textDocuments[d], position)
    \/ \E i \in 1..Len(hoverCalls), result \in HoverResults : HoverResponse(i, result)

Spec == Init /\ [][Next]_vars

\* multi-root mode
InitMulti == Init /\ supportsWorkspaceFolders
SpecMulti == InitMulti /\ [][Next]_vars

\* single-root mode
InitSingle == Init /\ ~supportsWorkspaceFolders
SpecSingle == InitSingle /\ [][Next]_vars

\* a WebSocket that is connecting eventually fires 'open' or 'error', on
\* which connect() resumes
SocketProgress(s) == s \in DOMAIN sessions /\ (SocketOpen(s) \/ SocketError(s))
Fairness == \A s \in 1..MaxSessions : WF_vars(SocketProgress(s))
SpecLive == Init /\ [][Next]_vars /\ Fairness

(***************************************************************************)
(* The selector scoping specification: scopeDocumentSelectorToRoot applied *)
(* to one input                                                            *)
(***************************************************************************)
ManagerStopped ==
    /\ supportsWorkspaceFolders = FALSE
    /\ serverCapabilities = {}
    /\ roots = <<>>
    /\ registerPc = "off"
    /\ rootsBefore = <<>>
    /\ forwarding = FALSE
    /\ unsubscribed = FALSE
    /\ sessions = <<>>
    /\ connectionsByRootUri = <<>>
    /\ providers = <<>>
    /\ registrationSubscriptions = <<>>
    /\ uuidCounter = 0
    /\ calls = <<>>
    /\ hoverCalls = <<>>
    /\ rootChanges = 0
    /\ registrationRequests = 0

ManagerIdle == ManagerStopped /\ uriConfig = "identity"

ScopeInit ==
    /\ ManagerIdle
    /\ scopePc = "input"
    /\ scopeSelector \in SelectorInputs
    /\ scopeRoot \in ScopeRootInputs
    /\ scopeResult = <<>>
    /\ StaticIdle
    /\ InstallIdle
    /\ ProgressIdle
    /\ DiagnosticsIdle

ScopeApply ==
    /\ scopePc = "input"
    /\ scopeResult' = scopeDocumentSelectorToRoot(scopeSelector, scopeRoot)
    /\ scopePc' = "done"
    /\ UNCHANGED <<managerVars, scopeSelector, scopeRoot, staticVars, installVars,
                   progressVars, diagnosticsVars>>

ScopeNext == ScopeApply

SpecScope == ScopeInit /\ [][ScopeNext]_vars

(***************************************************************************)
(* The static registration specification:                                  *)
(* staticRegistrationsFromCapabilities applied to one initialize result,   *)
(* after some number of uuids were drawn                                   *)
(***************************************************************************)
CapabilityInputs == SUBSET Range(CapabilityNames)

StaticInit ==
    /\ ManagerIdle
    /\ ScopeIdle
    /\ staticPc = "input"
    /\ staticCapabilities \in CapabilityInputs
    /\ staticDrawn \in 0..MaxDrawn
    /\ staticResult = <<>>
    /\ InstallIdle
    /\ ProgressIdle
    /\ DiagnosticsIdle

StaticApply ==
    /\ staticPc = "input"
    /\ staticResult' = staticRegistrationsFromCapabilities(staticCapabilities, staticDrawn)
    /\ staticPc' = "done"
    /\ UNCHANGED <<managerVars, scopeVars, staticCapabilities, staticDrawn, installVars,
                   progressVars, diagnosticsVars>>

StaticNext == StaticApply

SpecStatic == StaticInit /\ [][StaticNext]_vars

(***************************************************************************)
(* The registration specification: registerCapabilities applied to one     *)
(* list of registrations, on an initialized connection with the given      *)
(* scope root and no provider registered yet                               *)
(***************************************************************************)
RegistrationInputs == SeqsUpTo(RegistrationChoices, MaxRegistrations)
InstallConnection(rootUri) ==
    <<[NewSession("root", rootUri) EXCEPT !.state = "open", !.phase = "initialized"]>>

InstallInit ==
    /\ ManagerIdle
    /\ ScopeIdle
    /\ StaticIdle
    /\ installPc = "input"
    /\ installRegistrations \in RegistrationInputs
    /\ installRoot \in ScopeRootInputs
    /\ installResult = [providers |-> <<>>, subs |-> <<>>]
    /\ ProgressIdle
    /\ DiagnosticsIdle

InstallApply ==
    /\ installPc = "input"
    /\ installResult' = registerCapabilities(InstallConnection(installRoot), 1, installRoot,
                                             installRegistrations, FALSE, installResult)
    /\ installPc' = "done"
    /\ UNCHANGED <<managerVars, scopeVars, staticVars, installRegistrations, installRoot,
                   progressVars, diagnosticsVars>>

InstallNext == InstallApply

SpecInstall == InstallInit /\ [][InstallNext]_vars

(***************************************************************************)
(* The shared registration map specification: the sessions of two roots,   *)
(* both initialized, each receive the same list of registrations from      *)
(* their server; registrationSubscriptions is the one map of register()    *)
(***************************************************************************)
SharedSessions ==
    <<[NewSession("root", Some(Repo1)) EXCEPT !.state = "open", !.phase = "initialized"],
      [NewSession("root", Some(Repo2)) EXCEPT !.state = "open", !.phase = "initialized"]>>

SharedInit ==
    /\ ManagerIdle
    /\ ScopeIdle
    /\ StaticIdle
    /\ installPc = "first"
    /\ installRegistrations \in RegistrationInputs
    /\ installRoot = Some(Repo1)
    /\ installResult = [providers |-> <<>>, subs |-> <<>>]
    /\ ProgressIdle
    /\ DiagnosticsIdle

\* the RegistrationRequest handler of the session of installRoot
SharedFirst ==
    /\ installPc = "first"
    /\ installResult' = registerCapabilities(SharedSessions, 1, installRoot,
                                             installRegistrations, FALSE, installResult)
    /\ installRoot' = Some(Repo2)
    /\ installPc' = "second"
    /\ UNCHANGED <<managerVars, scopeVars, staticVars, installRegistrations,
                   progressVars, diagnosticsVars>>

\* the RegistrationRequest handler of the session of the other root
SharedSecond ==
    /\ installPc = "second"
    /\ installResult' = registerCapabilities(SharedSessions, 2, installRoot,
                                             installRegistrations, FALSE, installResult)
    /\ installPc' = "both"
    /\ UNCHANGED <<managerVars, scopeVars, staticVars, installRegistrations, installRoot,
                   progressVars, diagnosticsVars>>

SharedNext == SharedFirst \/ SharedSecond

SpecShared == SharedInit /\ [][SharedNext]_vars

(***************************************************************************)
(* The progress specification: the window/progress handler and the         *)
(* progress teardown of one connection that is open and listening          *)
(***************************************************************************)
MaxNotifications == 4

ProgressTokens == {"p1", "p2"}
progressSuffix == <<"(suffix)">>
\* the window/progress params the server sends apart from the id
ProgressParams ==
    {[title |-> Some(<<"Indexing">>), percentage |-> Some(0), done |-> FALSE],
     [title |-> Null, percentage |-> Some(50), done |-> FALSE],
     [title |-> Null, percentage |-> Null, done |-> TRUE]}

\* sourcegraph.app.activeWindow.showProgress({ title }): the promise of a reporter
ShowProgress(id, title) ==
    [id |-> id,
     title |-> title,
     state |-> "pending",      \* of the promise: "pending", "resolved" or "rejected"
     waiters |-> <<>>,         \* continuations awaiting the promise, in order
     updates |-> <<>>,         \* the arguments of reporter.next, in call order
     completes |-> 0,          \* reporter.complete() calls
     lateUpdates |-> 0,        \* reporter.next calls made after a reporter.complete()
     settledAfterClose |-> FALSE] \* the promise settled after the connection's teardown

\* reporter.next({ percentage, message })
ReporterNext(reporter, percentage) ==
    [reporter EXCEPT !.updates = Append(@, percentage),
                     !.lateUpdates = IF reporter.completes > 0 THEN @ + 1 ELSE @]

\* reporter.complete()
ReporterComplete(reporter) == [reporter EXCEPT !.completes = @ + 1]

\* the handler from `const reporter = await reporterPromise` on, with the
\* promise resolved
HandlerResume_EntryKept(st, r, params) ==
    LET forwarded == [st EXCEPT !.reporters[r] = ReporterNext(@, params.percentage)]
    IN IF params.done
       THEN [forwarded EXCEPT !.reporters[r] = ReporterComplete(@)]
       ELSE forwarded
HandlerResume(st, r, params) ==
    LET forwarded == [st EXCEPT !.reporters[r] = ReporterNext(@, params.percentage)]
    IN IF params.done
       THEN [forwarded EXCEPT !.reporters[r] = ReporterComplete(@),
                              !.map = MapDelete(@, st.reporters[r].id)]
       ELSE forwarded

\* reporterPromise.then(reporter => { reporter.complete() }) of the teardown
TeardownResume(st, r) == [st EXCEPT !.reporters[r] = ReporterComplete(@)]

\* the continuations of a resolved reporter promise run in the order they
\* were attached
RECURSIVE ResumeAll(_, _, _)
ResumeAll(st, r, waiters) ==
    IF waiters = <<>> THEN st
    ELSE ResumeAll(IF Head(waiters).kind = "handler"
                   THEN HandlerResume(st, r, Head(waiters).params)
                   ELSE TeardownResume(st, r),
                   r, Tail(waiters))

\* a continuation attached to reporter promise r: run now when the promise is
\* resolved, queued while it is pending, dropped (the handler's catch logs,
\* the teardown's then is skipped) when it is rejected
Await_Detached(st, r, waiter) ==
    IF st.reporters[r].state = "resolved" THEN ResumeAll(st, r, <<waiter>>) ELSE st
Await(st, r, waiter) ==
    IF st.reporters[r].state = "resolved" THEN ResumeAll(st, r, <<waiter>>)
    ELSE IF st.reporters[r].state = "pending"
         THEN [st EXCEPT !.reporters[r].waiters = Append(@, waiter)]
         ELSE st

\* progressReporters.get(id), and on a miss showProgress and progressReporters.set
GetOrCreate_AlwaysCreate(st, id, title) ==
    [reporters |-> Append(st.reporters,
                          ShowProgress(id, IF title # Null
                                           THEN Some(The(title) \o progressSuffix)
                                           ELSE Null)),
     map |-> MapSet(st.map, id, Len(st.reporters) + 1)]
GetOrCreate(st, id, title) ==
    IF id \in DOMAIN st.map THEN st
    ELSE [reporters |-> Append(st.reporters,
                               ShowProgress(id, IF title # Null
                                                THEN Some(The(title) \o progressSuffix)
                                                ELSE Null)),
          map |-> MapSet(st.map, id, Len(st.reporters) + 1)]

\* the teardown of the progress reports
RECURSIVE CompleteAll(_, _)
CompleteAll(st, todo) ==
    IF todo = {} THEN st
    ELSE LET r == CHOOSE x \in todo : \A y \in todo : x <= y
         IN CompleteAll(Await(st, r, [kind |-> "teardown"]), todo \ {r})

ProgressInit ==
    /\ ManagerIdle
    /\ ScopeIdle
    /\ StaticIdle
    /\ InstallIdle
    /\ DiagnosticsIdle
    /\ activeWindow \in BOOLEAN
    /\ progressReporters = <<>>
    /\ reporters = <<>>
    /\ progressClosed = FALSE
    /\ progressLog = <<>>

\* connection.onNotification(WindowProgressNotification.type, ...), up to the
\* await and beyond it when the reporter promise is already resolved
ProgressNotification(id, params) ==
    /\ ~progressClosed
    /\ Len(progressLog) < MaxNotifications
    /\ progressLog' = Append(progressLog, [id |-> id] @@ params)
    /\ IF ~activeWindow
       THEN UNCHANGED <<progressReporters, reporters>>
       ELSE LET got == GetOrCreate([reporters |-> reporters, map |-> progressReporters],
                                   id, params.title)
                st == Await(got, got.map[id], [kind |-> "handler", params |-> params])
            IN /\ reporters' = st.reporters
               /\ progressReporters' = st.map
    /\ UNCHANGED <<managerVars, scopeVars, staticVars, installVars, activeWindow,
                   progressClosed, diagnosticsVars>>

\* the promise showProgress returned resolves with the reporter
ReporterResolved(r) ==
    /\ reporters[r].state = "pending"
    /\ LET st == ResumeAll([reporters |-> [reporters EXCEPT ![r].state = "resolved",
                                                            ![r].waiters = <<>>,
                                                            ![r].settledAfterClose = progressClosed],
                            map |-> progressReporters],
                           r, reporters[r].waiters)
       IN /\ reporters' = st.reporters
          /\ progressReporters' = st.map
    /\ UNCHANGED <<managerVars, scopeVars, staticVars, installVars, activeWindow,
                   progressClosed, progressLog, diagnosticsVars>>

\* the promise showProgress returned rejects
ReporterRejected(r) ==
    /\ reporters[r].state = "pending"
    /\ reporters' = [reporters EXCEPT ![r].state = "rejected", ![r].waiters = <<>>,
                                      ![r].settledAfterClose = progressClosed]
    /\ UNCHANGED <<managerVars, scopeVars, staticVars, installVars, activeWindow,
                   progressReporters, progressClosed, progressLog, diagnosticsVars>>

\* subscriptions.unsubscribe() of the connection: the progress teardown
ProgressTeardown ==
    /\ ~progressClosed
    /\ progressClosed' = TRUE
    /\ LET st == CompleteAll([reporters |-> reporters, map |-> progressReporters],
                             {progressReporters[id] : id \in DOMAIN progressReporters})
       IN reporters' = st.reporters
    /\ progressReporters' = <<>>
    /\ UNCHANGED <<managerVars, scopeVars, staticVars, installVars, activeWindow,
                   progressLog, diagnosticsVars>>

ProgressNext ==
    \/ \E id \in ProgressTokens, params \in ProgressParams : ProgressNotification(id, params)
    \/ \E r \in 1..Len(reporters) : ReporterResolved(r)
    \/ \E r \in 1..Len(reporters) : ReporterRejected(r)
    \/ ProgressTeardown

SpecProgress == ProgressInit /\ [][ProgressNext]_vars

\* the host settles every showProgress promise
ReporterSettles(r) == r \in DOMAIN reporters /\ (ReporterResolved(r) \/ ReporterRejected(r))
ProgressFairness == \A r \in 1..MaxNotifications : WF_vars(ReporterSettles(r))
SpecProgressLive == ProgressInit /\ [][ProgressNext]_vars /\ ProgressFairness

(***************************************************************************)
(* The diagnostics specification: the publishDiagnostics handler, the      *)
(* document-open handler and the diagnostics teardown of two connections   *)
(* that are open and listening, each with its own decoration type          *)
(***************************************************************************)
MaxDiagnosticsEvents == 3
MaxViewComponents == 3

DiagnosticsConnections == {1, 2}
\* params.uri and params.diagnostics the server publishes, and the documents
\* of the view components that are visible at the start
DiagnosticsInputs ==
    [uris |-> {Doc1, Doc2, clientToServerURIOf("rewrite", Doc1)},
     diagnostics |-> {<<>>, <<"d1">>, <<"d2", "d1">>},
     visible |-> {<<Doc1, Doc2>>, <<Doc1, Doc1>>}]

\* lsp-conversion's convertDiagnosticToDecoration
convertDiagnosticToDecoration(diagnostic) == [decoration |-> diagnostic]

\* viewComponent.setDecorations(decorationType, list.map(convertDiagnosticToDecoration))
\* on every visible view component whose document is among the targets
SetDecorations_Appended(shown, visible, targets, listOf) ==
    [v \in 1..Len(visible) |->
        IF visible[v] \in targets
        THEN (IF v \in DOMAIN shown THEN shown[v] ELSE <<>>)
             \o [i \in 1..Len(listOf[visible[v]]) |->
                    convertDiagnosticToDecoration(listOf[visible[v]][i])]
        ELSE IF v \in DOMAIN shown THEN shown[v] ELSE <<>>]
SetDecorations(shown, visible, targets, listOf) ==
    [v \in 1..Len(visible) |->
        IF visible[v] \in targets
        THEN [i \in 1..Len(listOf[visible[v]]) |->
                 convertDiagnosticToDecoration(listOf[visible[v]][i])]
        ELSE IF v \in DOMAIN shown THEN shown[v] ELSE <<>>]

DiagnosticsInit ==
    /\ ManagerStopped
    /\ uriConfig \in UriConfigs
    /\ ScopeIdle
    /\ StaticIdle
    /\ InstallIdle
    /\ ProgressIdle
    /\ visibleViewComponents \in DiagnosticsInputs.visible
    /\ diagnosticsByUri = [c \in DiagnosticsConnections |-> <<>>]
    /\ decorations = [c \in DiagnosticsConnections |->
                         [v \in 1..Len(visibleViewComponents) |-> <<>>]]
    /\ diagnosticsClosed = {}
    /\ diagnosticsEvents = <<>>

\* connection.onNotification(PublishDiagnosticsNotification.type, ...)
PublishDiagnostics(c, uri, diagnostics) ==
    /\ c \notin diagnosticsClosed
    /\ Len(diagnosticsEvents) < MaxDiagnosticsEvents
    /\ LET sourcegraphTextDocumentUri == serverToClientURI(uri)
           stored == MapSet(diagnosticsByUri[c], Href(sourcegraphTextDocumentUri), diagnostics)
       IN /\ diagnosticsByUri' = [diagnosticsByUri EXCEPT ![c] = stored]
          /\ decorations' = [decorations EXCEPT ![c] =
                                SetDecorations(@, visibleViewComponents,
                                               {Href(sourcegraphTextDocumentUri)}, stored)]
    /\ diagnosticsEvents' = Append(diagnosticsEvents,
                                   [kind |-> "publish", connection |-> c, uri |-> uri,
                                    diagnostics |-> diagnostics])
    /\ UNCHANGED <<managerVars, scopeVars, staticVars, installVars, progressVars,
                   visibleViewComponents, diagnosticsClosed>>

\* the host shows a document in a further view component and fires
\* onDidOpenTextDocument: every connection still subscribed sets its
\* decorations on all visible view components
DidOpenTextDocument(document) ==
    /\ Len(diagnosticsEvents) < MaxDiagnosticsEvents
    /\ Len(visibleViewComponents) < MaxViewComponents
    /\ visibleViewComponents' = Append(visibleViewComponents, document)
    /\ decorations' =
           [c \in DiagnosticsConnections |->
               IF c \in diagnosticsClosed
               THEN SetDecorations(decorations[c], visibleViewComponents', {}, <<>>)
               ELSE SetDecorations(decorations[c], visibleViewComponents',
                                   Range(visibleViewComponents'),
                                   [u \in Range(visibleViewComponents') |->
                                       IF u \in DOMAIN diagnosticsByUri[c]
                                       THEN diagnosticsByUri[c][u] ELSE <<>>])]
    /\ diagnosticsEvents' = Append(diagnosticsEvents, [kind |-> "open", document |-> document])
    /\ UNCHANGED <<managerVars, scopeVars, staticVars, installVars, progressVars,
                   diagnosticsByUri, diagnosticsClosed>>

\* subscriptions.unsubscribe() of connection c: the diagnostics teardown
DiagnosticsTeardown(c) ==
    /\ c \notin diagnosticsClosed
    /\ diagnosticsClosed' = diagnosticsClosed \cup {c}
    /\ decorations' = [decorations EXCEPT ![c] =
                          SetDecorations(@, visibleViewComponents, DOMAIN diagnosticsByUri[c],
                                         [u \in DOMAIN diagnosticsByUri[c] |-> <<>>])]
    /\ UNCHANGED <<managerVars, scopeVars, staticVars, installVars, progressVars,
                   visibleViewComponents, diagnosticsByUri, diagnosticsEvents>>

DiagnosticsNext ==
    \/ \E c \in DiagnosticsConnections, uri \in DiagnosticsInputs.uris,
          diagnostics \in DiagnosticsInputs.diagnostics : PublishDiagnostics(c, uri, diagnostics)
    \/ \E document \in Range(textDocuments) : DidOpenTextDocument(document)
    \/ \E c \in DiagnosticsConnections : DiagnosticsTeardown(c)

SpecDiagnostics == DiagnosticsInit /\ [][DiagnosticsNext]_vars

(***************************************************************************)
(* Observations used by the properties                                     *)
(***************************************************************************)
SessionIds == 1..Len(sessions)
Uris(rs) == {rs[i].uri : i \in 1..Len(rs)}
FolderUris(folders) == [i \in 1..Len(folders) |-> folders[i].uri]
NoDuplicates(seq) == \A i, j \in 1..Len(seq) : seq[i] = seq[j] => i = j
\* the positions of the calls of one method in the log of session s
CallsOf(ss, s, method) == {i \in 1..Len(ss[s].sent) : ss[s].sent[i].method = method}
FolderChanges(ss, s) == CallsOf(ss, s, "workspace/didChangeWorkspaceFolders")
RootSessionsOf(u) == {s \in SessionIds : sessions[s].origin = "root" /\ sessions[s].root = Some(u)}

(***************************************************************************)
(* C1: in multi-root mode register() creates one session and sends one     *)
(* initialize request on it, with rootUri null and workspaceFolders the    *)
(* root list the host has at that moment; no later root change or          *)
(* withConnection call creates a second session.                           *)
(***************************************************************************)
C1_SessionCount ==
    /\ Len(sessions) = (IF registerPc = "start" THEN 0 ELSE 1)
    /\ registerPc \in {"initializing", "ready"} =>
          Cardinality(CallsOf(sessions, 1, "initialize")) = 1
C1_InitializeSent ==
    (Len(sessions) = 1 /\ sessions[1].sent = <<>> /\ sessions'[1].sent # <<>>) =>
        /\ Len(sessions'[1].sent) = 1
        /\ sessions'[1].sent[1].method = "initialize"
        /\ sessions'[1].sent[1].rootUri = Null
        /\ sessions'[1].sent[1].workspaceFolders # Null
        /\ FolderUris(The(sessions'[1].sent[1].workspaceFolders)) = [i \in 1..Len(roots) |-> roots[i].uri]
C1_OneSessionOneInitialize == [](C1_SessionCount) /\ [][C1_InitializeSent]_vars
C1_Witness ==
    /\ supportsWorkspaceFolders
    /\ registerPc = "ready"
    /\ rootChanges > 0
    /\ \E c \in 1..Len(calls) : calls[c].pc = "done"
    /\ Len(sessions) = 1
    /\ Len(The(sessions[1].sent[1].workspaceFolders)) = 2

(***************************************************************************)
(* C2: in single-root mode, when register() has returned, every root that  *)
(* was open at startup has exactly one session, on which initialize was    *)
(* sent once with rootUri that root and workspaceFolders null.             *)
(***************************************************************************)
C2_SessionPerStartupRoot ==
    (~supportsWorkspaceFolders /\ registerPc = "ready" /\ rootChanges = 0) =>
        \A u \in Uris(roots) :
            /\ Cardinality(RootSessionsOf(u)) = 1
            /\ \A s \in RootSessionsOf(u) :
                  /\ Cardinality(CallsOf(sessions, s, "initialize")) = 1
                  /\ \A i \in CallsOf(sessions, s, "initialize") :
                        /\ sessions[s].sent[i].rootUri = Some(u)
                        /\ sessions[s].sent[i].workspaceFolders = Null

(***************************************************************************)
(* C3: in single-root mode, once the root-change event of a root's removal *)
(* was handled, the session of that root is disposed, by exactly one       *)
(* dispose() call, and the sessions of the roots still open are not.       *)
(***************************************************************************)
C3_RemovedRootDisposed ==
    (~supportsWorkspaceFolders /\ forwarding) =>
        \A s \in SessionIds :
            (sessions[s].origin = "root" /\ sessions[s].phase = "initialized") =>
                IF The(sessions[s].root) \in Uris(roots)
                THEN sessions[s].disposeCalls = 0
                ELSE sessions[s].disposeCalls = 1 /\ sessions[s].state = "closed"

(***************************************************************************)
(* C4: a server that declares hoverProvider gets exactly one hover         *)
(* provider per initialized session; every invocation of a hover provider  *)
(* makes exactly one textDocument/hover request, with the position of the  *)
(* invocation and the clientToServerURI image of the document URI; the uri *)
(* fields of a returned result are the serverToClientURI images of those   *)
(* of the server's result.                                                 *)
(***************************************************************************)
StaticHoverProviders(s) ==
    {h \in 1..Len(providers) :
        providers[h].session = s /\ providers[h].static /\ providers[h].method = HoverMethod}
HoverRequestsOf(i) ==
    LET s == providers[hoverCalls[i].provider].session
    IN {k \in CallsOf(sessions, s, HoverMethod) : sessions[s].sent[k].call = i}
C4_HoverProvider ==
    /\ \A s \in SessionIds :
          Cardinality(StaticHoverProviders(s)) =
              (IF sessions[s].phase = "initialized" /\ "hoverProvider" \in serverCapabilities
               THEN 1 ELSE 0)
    /\ \A i \in 1..Len(hoverCalls) :
          LET s == providers[hoverCalls[i].provider].session
          IN /\ Cardinality(HoverRequestsOf(i)) = 1
             /\ \A k \in HoverRequestsOf(i) :
                   /\ sessions[s].sent[k].position = hoverCalls[i].position
                   /\ sessions[s].sent[k].uri =
                         clientToServerURIOf(uriConfig, hoverCalls[i].textDocument)
             /\ hoverCalls[i].returned # Null =>
                   The(hoverCalls[i].returned).uri =
                       {serverToClientURIOf(uriConfig, u) : u \in The(hoverCalls[i].result).uri}
C4_Witness ==
    \E i \in 1..Len(hoverCalls) :
        /\ uriConfig = "rewrite"
        /\ hoverCalls[i].pc = "returned"
        /\ hoverCalls[i].position = <<0, 2>>
        /\ The(hoverCalls[i].result).uri # Null
        /\ The(hoverCalls[i].returned).uri # The(hoverCalls[i].result).uri
        /\ Cardinality(StaticHoverProviders(providers[hoverCalls[i].provider].session)) = 1

(***************************************************************************)
(* C5: scopeDocumentSelectorToRoot replaces a null or empty selector by    *)
(* [{pattern: '**'}]; with a root, every filter of the result is the input *)
(* filter (a bare language string s being {language: s}) with pattern set  *)
(* to (pattern or '**') resolved against the root; with a null root the    *)
(* selector is returned as it is.                                          *)
(***************************************************************************)
ScopedAsSpecified(documentSelector, rootUri) ==
    LET ds == IF documentSelector = Null \/ The(documentSelector) = <<>>
              THEN <<JField("pattern", JString(<<"**">>))>>
              ELSE The(documentSelector)
    IN IF rootUri = Null THEN ds
       ELSE [i \in 1..Len(ds) |->
                LET filter == IF IsJString(ds[i]) THEN JField("language", ds[i]) ELSE ds[i]
                IN JWithout(filter, "pattern")
                   \cup JField("pattern",
                               JString(URLResolve(PatternOrDefault(filter), The(rootUri))))]
C5_ScopedSelector ==
    scopePc = "done" => scopeResult = ScopedAsSpecified(scopeSelector, scopeRoot)

(***************************************************************************)
(* C6: no registration id has two active provider handles at once.         *)
(***************************************************************************)
ActiveHandlesOf(id) == {h \in 1..Len(providers) : providers[h].id = id /\ providers[h].active}
C6_OneHandlePerId ==
    \A h \in 1..Len(providers) : Cardinality(ActiveHandlesOf(providers[h].id)) <= 1

(***************************************************************************)
(* C7: no provider handle installed through a session is active once that  *)
(* session is closed.                                                      *)
(***************************************************************************)
C7_NoProviderOfClosedSession ==
    \A h \in 1..Len(providers) :
        providers[h].active => sessions[providers[h].session].state # "closed"

(***************************************************************************)
(* C8: in multi-root mode every root-change event the live subscription    *)
(* handles on the open session sends exactly one                           *)
(* workspace/didChangeWorkspaceFolders notification, whose added and       *)
(* removed lists are the differences by URI of the root lists after and    *)
(* before the event.                                                       *)
(***************************************************************************)
C8_RootChangeStep ==
    (supportsWorkspaceFolders /\ forwarding /\ IsOpen(sessions, 1) /\ roots' # roots) =>
        LET log == sessions[1].sent
            notification == Last(sessions'[1].sent)
        IN /\ Len(sessions'[1].sent) = Len(log) + 1
           /\ SubSeq(sessions'[1].sent, 1, Len(log)) = log
           /\ notification.method = "workspace/didChangeWorkspaceFolders"
           /\ notification.accepted
           /\ notification.added # Null /\ notification.removed # Null
           /\ NoDuplicates(The(notification.added))
           /\ NoDuplicates(The(notification.removed))
           /\ Range(FolderUris(The(notification.added))) = Uris(roots') \ Uris(roots)
           /\ Range(FolderUris(The(notification.removed))) = Uris(roots) \ Uris(roots')
C9_CallStep ==
    (supportsWorkspaceFolders /\ Len(calls') = Len(calls) + 1) =>
        LET call == calls'[Len(calls')]
            log == sessions[1].sent
        IN IF call.root \in Uris(roots)
           THEN /\ sessions'[1].sent = log
                /\ call.temp = Null
                /\ call.pc = "running"
           ELSE /\ Len(sessions'[1].sent) = Len(log) + 1
                /\ SubSeq(sessions'[1].sent, 1, Len(log)) = log
                /\ Last(sessions'[1].sent).method = "workspace/didChangeWorkspaceFolders"
                /\ Last(sessions'[1].sent).added # Null
                /\ FolderUris(The(Last(sessions'[1].sent).added)) = <<call.root>>
                /\ Last(sessions'[1].sent).removed = Null
                /\ call.temp # Null
C9_SettleStep ==
    \A c \in 1..Len(calls) :
        (supportsWorkspaceFolders /\ calls[c].pc = "running" /\ calls'[c].pc = "done") =>
            LET log == sessions[1].sent
            IN IF calls[c].temp = Null
               THEN sessions'[1].sent = log
               ELSE /\ Len(sessions'[1].sent) = Len(log) + 1
                    /\ SubSeq(sessions'[1].sent, 1, Len(log)) = log
                    /\ Last(sessions'[1].sent).method = "workspace/didChangeWorkspaceFolders"
                    /\ Last(sessions'[1].sent).removed # Null
                    /\ FolderUris(The(Last(sessions'[1].sent).removed)) = <<calls[c].root>>
                    /\ Last(sessions'[1].sent).added = Null
C9_TemporaryFolder == [][C9_CallStep /\ C9_SettleStep]_vars
C9_Witness ==
    \E c \in 1..Len(calls) :
        /\ supportsWorkspaceFolders
        /\ calls[c].pc = "done"
        /\ calls[c].fnOutcome = "rejected"
        /\ calls[c].temp # Null
        /\ Cardinality(FolderChanges(sessions, 1)) = 2
        /\ \A i \in FolderChanges(sessions, 1) : sessions[1].sent[i].accepted

(***************************************************************************)
(* C10: in single-root mode the step in which fn settles calls dispose()   *)
(* on the session that was passed to fn and leaves it closed, and the      *)
(* outcome of withConnection is the outcome of fn, value or error alike.   *)
(***************************************************************************)
C10_SettleStep ==
    \A c \in 1..Len(calls) :
        (~supportsWorkspaceFolders /\ calls[c].pc = "running" /\ calls'[c].pc = "done") =>
            LET s == calls[c].session
            IN /\ sessions'[s].disposeCalls = sessions[s].disposeCalls + 1
               /\ sessions'[s].state = "closed"
               /\ calls'[c].fnOutcome \in {"resolved", "rejected"}
               /\ calls'[c].outcome = calls'[c].fnOutcome
               /\ calls'[c].value = calls'[c].fnValue
C11_SettleStep ==
    \A c \in 1..Len(calls) :
        (/\ calls[c].pc = "running" /\ calls'[c].pc = "done"
         /\ calls[c].root \in Uris(roots)
         /\ IsOpen(sessions, calls[c].session)) =>
            LET s == calls[c].session
            IN /\ sessions'[s].disposeCalls = sessions[s].disposeCalls
               /\ sessions'[s].state = "open"
C11_OpenRootKeepsConnection == [][C11_SettleStep]_vars

(***************************************************************************)
(* C12: in single-root mode no workspace root has two live sessions: the   *)
(* sessions of a root are the ones the root-change handler connected for   *)
(* it and the ones withConnection connected for it, and a session is live  *)
(* while it is connecting or open.                                         *)
(***************************************************************************)
CallSessionsOf(u) ==
    {s \in SessionIds : sessions[s].origin = "call"
                        /\ \E c \in 1..Len(calls) : calls[c].session = s /\ calls[c].root = u}
LiveSessionsOf(u) ==
    {s \in RootSessionsOf(u) \cup CallSessionsOf(u) : sessions[s].state \in {"connecting", "open"}}
C12_OneLiveSessionPerRoot ==
    ~supportsWorkspaceFolders => \A u \in RootUris : Cardinality(LiveSessionsOf(u)) <= 1

(***************************************************************************)
(* C13: once LSPClient.unsubscribe() was called, every session the manager *)
(* created gets closed (or never opened), the ones whose connect or        *)
(* initialize was in flight included, and a later root-change event        *)
(* creates no session and sends nothing on any session.                    *)
(***************************************************************************)
C13_AllClosed == \A s \in SessionIds : sessions[s].state \in {"closed", "failed"}
C13_RootChangeStep ==
    (unsubscribed /\ rootChanges' # rootChanges) =>
        /\ Len(sessions') = Len(sessions)
        /\ \A s \in SessionIds : sessions'[s].sent = sessions[s].sent
C13_Teardown == (unsubscribed ~> C13_AllClosed) /\ [][C13_RootChangeStep]_vars
C13_Witness ==
    /\ unsubscribed
    /\ C13_AllClosed
    /\ rootChanges = 2
    /\ roots # rootsBefore
    /\ \E s \in SessionIds :
          /\ sessions[s].origin = "root"
          /\ sessions[s].state = "closed"
          /\ \E i \in CallsOf(sessions, s, "initialize") : ~sessions[s].sent[i].accepted

(***************************************************************************)
(* C14: every URI in a message sent to the server (rootUri and             *)
(* workspaceFolders of initialize, added and removed of                    *)
(* didChangeWorkspaceFolders, the document of didOpen and of a hover       *)
(* request) is the clientToServerURI image of a URI of the host.           *)
(***************************************************************************)
HostUris == RootUris \cup Range(textDocuments)
OptionalFolderUris(folders) == IF folders = Null THEN {} ELSE Range(FolderUris(The(folders)))
UrisOfMessage(m) ==
    CASE m.method = "initialize" -> m.rootUri \cup OptionalFolderUris(m.workspaceFolders)
      [] m.method = "workspace/didChangeWorkspaceFolders" ->
            OptionalFolderUris(m.added) \cup OptionalFolderUris(m.removed)
      [] OTHER -> {m.uri}
C14_ServerUrisConverted ==
    \A s \in SessionIds : \A i \in 1..Len(sessions[s].sent) :
        UrisOfMessage(sessions[s].sent[i]) \subseteq {clientToServerURIOf(uriConfig, h) : h \in HostUris}

(***************************************************************************)
(* C15: in single-root mode every filter of the selector handed to the     *)
(* host for a provider, of any feature, static or dynamic, has a pattern   *)
(* that lies under the root of the provider's session.                     *)
(***************************************************************************)
FilterScopedTo(filter, rootUri) ==
    LET p == JGet(filter, "pattern")
    IN IsJString(p) /\ IsPrefix(rootUri, (CHOOSE q \in p : q[1] = <<>>)[2])
C15_ProvidersScopedToRoot ==
    \A h \in 1..Len(providers) :
        LET s == providers[h].session
        IN sessions[s].root # Null =>
              \A i \in 1..Len(providers[h].selector) :
                  FilterScopedTo(providers[h].selector[i], The(sessions[s].root))

(***************************************************************************)
(* C16: on every session the didOpen notifications are sent in the step    *)
(* that handles the initialize response, after the initialize request, and *)
(* every provider installed through the session, static or dynamic, is     *)
(* registered after all of them.                                           *)
(***************************************************************************)
DidOpens(ss, s) == CallsOf(ss, s, "textDocument/didOpen")
C16_SyncBeforeProviders ==
    /\ \A s \in SessionIds : \A i \in DidOpens(sessions, s) :
          \E j \in CallsOf(sessions, s, "initialize") : j < i
    /\ \A h \in 1..Len(providers) :
          providers[h].openedBefore = Cardinality(DidOpens(sessions, providers[h].session))
C16_SyncStep ==
    \A s \in SessionIds :
        DidOpens(sessions', s) # DidOpens(sessions, s) =>
            sessions[s].phase = "initializing" /\ sessions'[s].phase = "initialized"
DocumentsUnder(rootUri) == {d \in Range(textDocuments) : IsPrefix(rootUri, d)}
DidOpenUris(ss, s) == {ss[s].sent[i].uri : i \in DidOpens(ss, s)}
C17_SyncStep ==
    \A s \in SessionIds :
        (/\ ~supportsWorkspaceFolders
         /\ Len(roots) >= 2
         /\ sessions[s].phase = "initializing" /\ sessions'[s].phase = "initialized"
         /\ sessions[s].root # Null /\ The(sessions[s].root) \in Uris(roots)) =>
            DidOpenUris(sessions', s) =
                {clientToServerURIOf(uriConfig, d) : d \in DocumentsUnder(The(sessions[s].root))}
C17_DidOpenForOwnRoot == [][C17_SyncStep]_vars

(***************************************************************************)
(* C18: the static registrations synthesized from an initialize result     *)
(* hold exactly one registration per capability flag that is set, and the  *)
(* registration of a flag has the request method of that capability.       *)
(***************************************************************************)
RequestMethodOf(capability) ==
    CASE capability = "hoverProvider" -> HoverMethod
      [] capability = "definitionProvider" -> DefinitionMethod
      [] capability = "typeDefinitionProvider" -> TypeDefinitionMethod
      [] capability = "implementationProvider" -> ImplementationMethod
      [] capability = "referencesProvider" -> ReferencesMethod
C18_StaticRegistrations ==
    staticPc = "done" =>
        /\ Len(staticResult) = Cardinality(staticCapabilities)
        /\ \A capability \in staticCapabilities :
              Cardinality({i \in 1..Len(staticResult) :
                              staticResult[i].method = RequestMethodOf(capability)}) = 1

(***************************************************************************)
(* C19: registerCapabilities installs one provider for each registration   *)
(* of the list with a supported method, in their order and wherever an     *)
(* unsupported one stands among them; an unsupported registration installs *)
(* nothing and adds no entry to the registration map.                      *)
(***************************************************************************)
SupportedOf(registrations) ==
    SeqFilter(registrations, {r \in Range(registrations) : r.method \in SupportedMethods})
C19_UnknownMethodSkipped ==
    installPc = "done" =>
        LET expected == SupportedOf(installRegistrations)
            installed == installResult.providers
        IN /\ Len(installed) = Len(expected)
           /\ \A i \in 1..Len(installed) :
                 /\ installed[i].id = expected[i].id
                 /\ installed[i].method = expected[i].method
           /\ DOMAIN installResult.subs = {expected[i].id : i \in 1..Len(expected)}

(***************************************************************************)
(* C20: in single-root mode, once connect or initialize has failed for an  *)
(* added root, the tracking map holds no entry for the failed connection   *)
(* of that root, and a session for a root is only connected in the step of *)
(* a root-change event that adds the root.                                 *)
(***************************************************************************)
FailedRootSessions ==
    {s \in SessionIds : sessions[s].origin = "root" /\ PromiseState(sessions[s]) = "rejected"}
C20_FailedRootDropped ==
    ~supportsWorkspaceFolders =>
        \A s \in FailedRootSessions : \A k \in DOMAIN connectionsByRootUri : connectionsByRootUri[k] # s
C20_ConnectStep ==
    \A s \in 1..Len(sessions') :
        (s > Len(sessions) /\ sessions'[s].origin = "root") =>
            /\ rootChanges' = rootChanges + 1
            /\ The(sessions'[s].root) \in Uris(roots') \ Uris(roots)
C20_FailureDropsRoot == [](C20_FailedRootDropped) /\ [][C20_ConnectStep]_vars

(***************************************************************************)
(* C21: in single-root mode, after the connection of some root has failed, *)
(* a root-change event still connects a session for every root it adds,    *)
(* and every removed root whose session had initialized has that session   *)
(* closed once the event was handled.                                      *)
(***************************************************************************)
SomeRootFailed(ss) ==
    \E s \in 1..Len(ss) : ss[s].origin = "root" /\ PromiseState(ss[s]) = "rejected"
C21_AddStep ==
    (~supportsWorkspaceFolders /\ forwarding /\ SomeRootFailed(sessions)
     /\ rootChanges' = rootChanges + 1) =>
        \A u \in Uris(roots') \ Uris(roots) :
            \E s \in 1..Len(sessions') :
                s > Len(sessions) /\ sessions'[s].origin = "root" /\ sessions'[s].root = Some(u)
C21_RemovedDisposed ==
    (~supportsWorkspaceFolders /\ forwarding /\ SomeRootFailed(sessions)) =>
        \A s \in SessionIds :
            (/\ sessions[s].origin = "root"
             /\ sessions[s].phase = "initialized"
             /\ The(sessions[s].root) \notin Uris(roots)) => sessions[s].state = "closed"
C21_FailureIsolated == [](C21_RemovedDisposed) /\ [][C21_AddStep]_vars

(***************************************************************************)
(* C22: in single-root mode, when the initialize of a root's session       *)
(* completes after the host has already removed that root, the session is  *)
(* disposed by that completion: it does not stay open.                     *)
(***************************************************************************)
C22_CompletionStep ==
    \A s \in SessionIds :
        (/\ ~supportsWorkspaceFolders
         /\ sessions[s].origin = "root"
         /\ sessions[s].phase = "initializing"
         /\ sessions'[s].phase = "initialized"
         /\ The(sessions[s].root) \notin Uris(roots)) => sessions'[s].state = "closed"
C22_RemovedWhileConnecting == [][C22_CompletionStep]_vars

(***************************************************************************)
(* Observations of the progress specification                              *)
(***************************************************************************)
ReportersOf(id) == {r \in 1..Len(reporters) : reporters[r].id = id}
PendingReportersOf(id) == {r \in ReportersOf(id) : reporters[r].state = "pending"}
NotificationsOf(id) ==
    SeqFilter(progressLog, {n \in Range(progressLog) : n.id = id})

(***************************************************************************)
(* C23: on one connection, the progress notifications for a token that     *)
(* arrive while the token's reporter is being created create no further    *)
(* reporter: at most one creation per token is in flight, and it is the    *)
(* one stored in the token map.                                            *)
(***************************************************************************)
C23_OneCreationInFlight ==
    \A id \in ProgressTokens :
        /\ Cardinality(PendingReportersOf(id)) <= 1
        /\ (~progressClosed /\ PendingReportersOf(id) # {}) =>
               (id \in DOMAIN progressReporters /\ progressReporters[id] \in PendingReportersOf(id))
C23_NotificationStep ==
    \A id \in ProgressTokens :
        (PendingReportersOf(id) # {} /\ Len(NotificationsOf(id)') > Len(NotificationsOf(id))) =>
            /\ Len(reporters') = Len(reporters)
            /\ \A r \in PendingReportersOf(id) :
                   Len(reporters'[r].waiters) = Len(reporters[r].waiters) + 1
C23_CreationDeduplicated == [](C23_OneCreationInFlight) /\ [][C23_NotificationStep]_vars
C23_Witness ==
    \E r \in 1..Len(reporters) :
        /\ reporters[r].state = "pending"
        /\ Len(reporters[r].waiters) = 3
        /\ Cardinality(ReportersOf(reporters[r].id)) = 1

(***************************************************************************)
(* C24: with an active window and no teardown, once the notifications      *)
(* {percentage: 0}, {percentage: 50}, {done: true} for token p1 have been  *)
(* handled by a reporter whose creation succeeded, exactly one reporter    *)
(* was created for them, it received one update per notification (0, 50    *)
(* and the done notification's own update without a percentage), all       *)
(* before its single completion, and p1 was evicted from the token map; a  *)
(* p1 notification arriving after that creates a second reporter.          *)
(***************************************************************************)
P1Sequence == <<Some(0), Some(50), Null>>
FirstP1Reporter == CHOOSE r \in ReportersOf("p1") : \A q \in ReportersOf("p1") : r <= q
\* the p1 notifications so far are the sequence, and the reporter created for
\* them has handled them
P1SequenceHandled ==
    /\ activeWindow
    /\ ~progressClosed
    /\ Len(NotificationsOf("p1")) = 3
    /\ [i \in 1..3 |-> NotificationsOf("p1")[i].percentage] = P1Sequence
    /\ reporters[FirstP1Reporter].state = "resolved"
C24_FirstSequence(forwarded) ==
    P1SequenceHandled =>
        /\ Cardinality(ReportersOf("p1")) = 1
        /\ Len(reporters[FirstP1Reporter].updates) = forwarded
        /\ reporters[FirstP1Reporter].completes = 1
        /\ reporters[FirstP1Reporter].lateUpdates = 0
        /\ "p1" \notin DOMAIN progressReporters
C24_SecondSequenceStep ==
    (P1SequenceHandled /\ Len(NotificationsOf("p1")') = 4) =>
        Cardinality(ReportersOf("p1")') = 2
\* as stated: two updates are forwarded
C24_TwoUpdates == [](C24_FirstSequence(2)) /\ [][C24_SecondSequenceStep]_vars
\* as the handler does it: the done notification forwards an update as well
C24_OneUpdatePerNotification ==
    /\ [](C24_FirstSequence(3))
    /\ [](P1SequenceHandled => reporters[FirstP1Reporter].updates = P1Sequence)
    /\ [][C24_SecondSequenceStep]_vars
C24_Witness ==
    /\ activeWindow
    /\ Len(NotificationsOf("p1")) = 4
    /\ [i \in 1..3 |-> NotificationsOf("p1")[i].percentage] = P1Sequence
    /\ Cardinality(ReportersOf("p1")) = 2
    /\ reporters[FirstP1Reporter].updates = P1Sequence
    /\ reporters[FirstP1Reporter].completes = 1

(***************************************************************************)
(* C25: once the connection's teardown has run, the token map is empty,    *)
(* and eventually every reporter that exists, those whose creation was in  *)
(* flight at the teardown included, has been completed.                    *)
(***************************************************************************)
C25_AllCompleted ==
    /\ progressReporters = <<>>
    /\ \A r \in 1..Len(reporters) :
           /\ reporters[r].state # "pending"
           /\ reporters[r].state = "resolved" => reporters[r].completes >= 1
C25_ForceCompleted ==
    /\ progressClosed ~> C25_AllCompleted
    /\ [](progressClosed => progressReporters = <<>>)
\* a reporter created after the teardown that no done notification completed
C25_Witness ==
    \E r \in 1..Len(reporters) :
        /\ reporters[r].state = "resolved"
        /\ reporters[r].settledAfterClose
        /\ reporters[r].updates # <<>>
        /\ \A i \in 1..Len(reporters[r].updates) : reporters[r].updates[i] # Null
        /\ reporters[r].completes = 1

(***************************************************************************)
(* C30: every progress reporter is completed at most once and receives no  *)
(* update after its completion.                                            *)
(***************************************************************************)
C30_CompletedOnce ==
    \A r \in 1..Len(reporters) :
        reporters[r].completes <= 1 /\ reporters[r].lateUpdates = 0

(***************************************************************************)
(* C26: a publishDiagnostics notification of connection c for URI u with   *)
(* list d sets c's entry for serverToClientURI(u) to exactly d, leaves     *)
(* c's other entries and every other connection's entries and decorations  *)
(* unchanged, and sets c's decorations on every visible view component     *)
(* showing that URI to the decorations of d and on no other.               *)
(***************************************************************************)
C26_PublishStep ==
    (Len(diagnosticsEvents') = Len(diagnosticsEvents) + 1
     /\ Last(diagnosticsEvents').kind = "publish") =>
        LET n == Last(diagnosticsEvents')
            u == serverToClientURIOf(uriConfig, n.uri)
        IN /\ DOMAIN diagnosticsByUri'[n.connection] = DOMAIN diagnosticsByUri[n.connection] \cup {u}
           /\ diagnosticsByUri'[n.connection][u] = n.diagnostics
           /\ \A other \in DOMAIN diagnosticsByUri[n.connection] \ {u} :
                  diagnosticsByUri'[n.connection][other] = diagnosticsByUri[n.connection][other]
           /\ \A c \in DiagnosticsConnections \ {n.connection} :
                  /\ diagnosticsByUri'[c] = diagnosticsByUri[c]
                  /\ decorations'[c] = decorations[c]
           /\ \A v \in 1..Len(visibleViewComponents) :
                  decorations'[n.connection][v] =
                      IF visibleViewComponents[v] = u
                      THEN [i \in 1..Len(n.diagnostics) |-> [decoration |-> n.diagnostics[i]]]
                      ELSE decorations[n.connection][v]
C26_DiagnosticsReplaced == [][C26_PublishStep]_vars
\* a list replaced by a shorter one for a converted URI shown in two view
\* components, while the other connection holds its own list for that URI
C26_Witness ==
    /\ uriConfig = "rewrite"
    /\ Len(diagnosticsEvents) = 3
    /\ \A i \in 1..3 : diagnosticsEvents[i].kind = "publish"
    /\ diagnosticsEvents[1].connection = 1 /\ diagnosticsEvents[1].diagnostics = <<"d2", "d1">>
    /\ diagnosticsEvents[2].connection = 2 /\ diagnosticsEvents[2].diagnostics = <<"d2", "d1">>
    /\ diagnosticsEvents[3].connection = 1 /\ diagnosticsEvents[3].diagnostics = <<"d1">>
    /\ \A i \in 1..3 : diagnosticsEvents[i].uri = clientToServerURIOf("rewrite", Doc1)
    /\ visibleViewComponents = <<Doc1, Doc1>>
    /\ diagnosticsByUri[1][Doc1] = <<"d1">>
    /\ diagnosticsByUri[2][Doc1] = <<"d2", "d1">>
    /\ decorations[1] = <<<<[decoration |-> "d1"]>>, <<[decoration |-> "d1"]>>>>

(***************************************************************************)
(* C27: the teardown of a session has run exactly once when the session is *)
(* closed and never more than once, however many of socket close,          *)
(* connection dispose, withConnection disposal and manager teardown hit    *)
(* the session; a closed session stays closed.                             *)
(***************************************************************************)
C27_TeardownCount ==
    \A s \in SessionIds :
        /\ sessions[s].teardowns <= 1
        /\ sessions[s].state = "closed" <=> sessions[s].teardowns = 1
C27_ClosedStep ==
    \A s \in SessionIds : sessions[s].state = "closed" => sessions'[s].state = "closed"
C27_TeardownOnce == [](C27_TeardownCount) /\ [][C27_ClosedStep]_vars
\* a session disposed by its withConnection call and again by the manager
C27_Witness ==
    \E s \in SessionIds :
        /\ sessions[s].origin = "call"
        /\ sessions[s].disposeCalls >= 2
        /\ sessions[s].teardowns = 1

(***************************************************************************)
(* C28: in multi-root mode, while the session is open with the root        *)
(* changes being forwarded and no withConnection call in flight, the       *)
(* folders the server has been told (the workspaceFolders of initialize,   *)
(* plus the added and minus the removed folders of the notifications sent  *)
(* since) are the roots the host has open.                                 *)
(***************************************************************************)
RECURSIVE ToldFolders(_)
ToldFolders(log) ==
    IF log = <<>> THEN {}
    ELSE LET m == Last(log)
             before == ToldFolders(Front(log))
         IN IF ~m.accepted THEN before
            ELSE IF m.method = "initialize" THEN OptionalFolderUris(m.workspaceFolders)
            ELSE IF m.method = "workspace/didChangeWorkspaceFolders"
                 THEN (before \cup OptionalFolderUris(m.added)) \ OptionalFolderUris(m.removed)
                 ELSE before
C28_ServerFoldersMatchRoots ==
    (/\ supportsWorkspaceFolders
     /\ forwarding
     /\ ~unsubscribed
     /\ sessions # <<>>
     /\ IsOpen(sessions, 1)
     /\ \A c \in 1..Len(calls) : calls[c].pc = "done") =>
        ToldFolders(sessions[1].sent) = Uris(roots)

(***************************************************************************)
(* C29: in multi-root mode, while fn of a withConnection call runs on the  *)
(* open session, the call's root is among the folders the server has been  *)
(* told; and the folder a settling call removes is neither open in the     *)
(* host at that moment nor the root of another call whose fn still runs.   *)
(***************************************************************************)
RunningCalls == {c \in 1..Len(calls) : calls[c].pc = "running"}
C29_RootToldWhileRunning ==
    \A c \in RunningCalls :
        (supportsWorkspaceFolders /\ IsOpen(sessions, 1)) =>
            calls[c].root \in ToldFolders(sessions[1].sent)
C29_SettleStep ==
    \A c \in RunningCalls :
        (/\ supportsWorkspaceFolders
         /\ calls'[c].pc = "done"
         /\ Len(sessions'[1].sent) = Len(sessions[1].sent) + 1
         /\ Last(sessions'[1].sent).method = "workspace/didChangeWorkspaceFolders") =>
            \A u \in OptionalFolderUris(Last(sessions'[1].sent).removed) :
                /\ u \notin Uris(roots)
                /\ \A other \in RunningCalls \ {c} : calls[other].root # u
C29_TemporaryFolderKept == [](C29_RootToldWhileRunning) /\ [][C29_SettleStep]_vars

(***************************************************************************)
(* C31: in single-root mode, the session withConnection hands to fn is     *)
(* open, not disposed, at the moment fn is called.                         *)
(***************************************************************************)
FnCalledIn(c) ==
    /\ c \in 1..Len(calls')
    /\ calls'[c].pc = "running"
    /\ (c \in 1..Len(calls) => calls[c].pc # "running")
C31_FnCallStep ==
    \A c \in 1..MaxCalls :
        (~supportsWorkspaceFolders /\ FnCalledIn(c)) => calls'[c].passedState = "open"
C31_FnCallStepWhileSubscribed ==
    \A c \in 1..MaxCalls :
        (~supportsWorkspaceFolders /\ ~unsubscribed /\ FnCalledIn(c)) =>
            calls'[c].passedState = "open"
C31_NeverDisposedWhileSubscribed == [][C31_FnCallStepWhileSubscribed]_vars

(***************************************************************************)
(* C32: in single-root mode, when withConnection calls fn, the session it  *)
(* passes has sent an initialize request carrying the call's root as       *)
(* rootUri and has received the response.                                  *)
(***************************************************************************)
C32_FnCallStep ==
    \A c \in 1..MaxCalls :
        (~supportsWorkspaceFolders /\ FnCalledIn(c)) =>
            LET s == calls'[c].session
            IN /\ sessions'[s].phase = "initialized"
               /\ \E i \in CallsOf(sessions', s, "initialize") :
                      sessions'[s].sent[i].rootUri = Some(calls'[c].root)
C32_InitializedBeforeFn == [][C32_FnCallStep]_vars

(***************************************************************************)
(* C33: when the session of a second root installs registrations, every    *)
(* id the map tracked for the first root's session still maps to the same  *)
(* handle afterwards.                                                      *)
(***************************************************************************)
C33_SecondSessionStep ==
    (installPc = "second" /\ installPc' = "both") =>
        \A id \in DOMAIN installResult.subs :
            /\ id \in DOMAIN installResult'.subs
            /\ installResult'.subs[id] = installResult.subs[id]
C33_HandlesPerSession == [][C33_SecondSessionStep]_vars

====
